---- MODULE Spec2Model ----
(***************************************************************************)
(* Extraction job orchestrator of backend/modules/project_manager.py:      *)
(* the submission handler (add_project_with_scraping), the per-job         *)
(* consumer task (consume_messages), the worker thread                     *)
(* (run_extraction_thread, handle_interruption) and the control-plane      *)
(* calls (interrupt_extraction), over the three module-level dictionaries  *)
(* active_extractions, extraction_stats and message_queues.                *)
(*                                                                         *)
(* Granularity.  The worker runs on a pool thread, the consumer on the     *)
(* event loop: every access of the worker to a shared dictionary is a step *)
(* of its own where the other side can change what it reads (the registry  *)
(* entry, the queue mapping).  Statements that touch only the worker's own *)
(* locals (processing_status, the page lists) and the puts that follow     *)
(* them are grouped with the shared access that precedes them.  send_log   *)
(* is one step: its membership test followed by a failing lookup is caught *)
(* inside send_log and has the outcome of the test failing.                *)
(***************************************************************************)
EXTENDS Integers, Sequences, FiniteSets, TLC

\* ------------------------------------------------------------------ bounds
\* Largest number of pages the sitemap collaborator returns.
MaxPages == 2
\* The most sends to the subscriber that fail during one consumer task.
MaxSendFailures == 2
\* The longest list of performance logs handed to process_network_data.
MaxLogs == 3

\* ------------------------------------------------------- program constants
STATUS_RUNNING == "running"
STATUS_INTERRUPTED == "interrupted"
STATUS_COMPLETED == "completed"
STATUS_ERROR == "error"
\* pages_limit default for an input below 1, and the cap of limited mode
DefaultPagesLimit == 5
LimitedModeCap == 100

TerminalStatuses == {STATUS_COMPLETED, STATUS_ERROR, STATUS_INTERRUPTED}

\* Jobs are the submissions (one project record, one worker, one consumer
\* each); ClientIds are the keys of the three dictionaries.
Jobs == 1..2
ClientIds == {"a", "b"}
\* The jobs and client ids the single-job specification submits.
SpecJobs == {1}
SpecClients == {"a"}
\* The page that stands for the target url (sitemap_pages = [url]).
UrlPage == 0

VARIABLES
    job,                 \* [Jobs -> submission handler state and inputs]
    active_extractions,  \* [ClientIds -> registry entry, status "absent" when no key]
    extraction_stats,    \* the set of keys of extraction_stats
    message_queues,      \* [ClientIds -> the queue object mapped (a set: empty or one)]
    queues,              \* [Jobs -> contents of the queue object job j created]
    consumer,            \* [Jobs -> consumer task: pc, the queue object q it holds,
                         \*    and failed, the messages whose forwarding raised]
    worker,              \* [Jobs -> worker thread: pc and locals]
    processing_status,   \* [Jobs -> the worker's processing_status dict]
    db,                  \* [Jobs -> the persisted project record]
    emitted,             \* [Jobs -> every message the worker handed to send_log / put]
    delivered,           \* [ClientIds -> what the subscriber of the id received:
                         \*    got, the messages; late, those that arrived
                         \*    after a later message of their job]
    fetched,             \* [Jobs -> pages handed to scrape_website, in order]
    intr_ret,            \* [ClientIds -> last return value of interrupt_extraction]
    status_query,        \* [ClientIds -> where a get_extraction_status call
                         \*    stands, or how the last one ended]
    net,                 \* a call of process_network_data: its logs, the
                         \*    position of its loop and its locals
    early_intr,          \* [Jobs -> an interrupt was accepted before any fetch]
    end_writes           \* [Jobs -> number of assignments to end_time]

vars == <<job, active_extractions, extraction_stats, message_queues, queues,
          consumer, worker, processing_status, db, emitted, delivered,
          fetched, intr_ret, status_query, net, early_intr, end_writes>>

\* ----------------------------------------------------------------- helpers
Merge(r, upd) ==
    [k \in DOMAIN r |-> IF k \in DOMAIN upd THEN upd[k] ELSE r[k]]

Min(a, b) == IF a < b THEN a ELSE b

\* s[:n] of Python for n >= 0
SliceAll(s, n) == s

Slice(s, n) == SubSeq(s, 1, Min(n, Len(s)))

NoEntry ==
    [status |-> "absent", interrupt_requested |-> FALSE,
     last_updated |-> "none", project_id |-> 0]

\* lines 65-72
NormalizeLimitUncapped(scrape_mode, pages_limit) ==
    IF pages_limit < 1 THEN DefaultPagesLimit ELSE pages_limit

NormalizeLimit(scrape_mode, pages_limit) ==
    LET mode == IF scrape_mode \notin {"all", "limited"} THEN "limited"
                ELSE scrape_mode
    IN  IF pages_limit < 1 THEN DefaultPagesLimit
        ELSE IF mode = "limited" /\ pages_limit > LimitedModeCap
             THEN LimitedModeCap
             ELSE pages_limit

\* lines 75-89 and 364-377
InitialStatus(limit) ==
    [robots_status |-> "not_processed",
     sitemap_status |-> "not_processed",
     pages_found |-> 0,
     pages_scraped |-> 0,
     errors |-> <<>>,
     extraction_status |-> STATUS_RUNNING,
     end_time |-> FALSE,
     pages_limit |-> limit,
     keyword_search_results |-> "none",
     keyword_matches |-> {},
     pages_with_keywords |-> 0,
     pages_checked |-> 0]

NoStatus == [InitialStatus(0) EXCEPT !.extraction_status = "none"]

\* lines 92-105: the inserted project record (processing_status flattened,
\* site_data.scraped_pages beside it)
InitialRecord(limit) ==
    [k \in DOMAIN InitialStatus(limit) \cup {"exists", "scraped_pages"} |->
        IF k = "exists" THEN TRUE
        ELSE IF k = "scraped_pages" THEN <<>>
        ELSE InitialStatus(limit)[k]]

NoRecord == [InitialRecord(0) EXCEPT !.exists = FALSE, !.extraction_status = "none"]

NoWorker ==
    [pc |-> "idle", i |-> 0, sitemap_pages |-> <<>>, filtered_pages |-> <<>>,
     pages_to_process |-> <<>>, scraped_pages |-> <<>>, keyword_matches |-> {},
     pages_checked |-> 0, raised |-> FALSE,
     \* history: the candidates whose check failed inside check_page_for_keywords
     failed_checks |-> {},
     \* history: the candidates for which the prefilter reported a match
     reported |-> {}]

\* lines 749-777: a $set of the given fields; a failure is caught and printed
update_project_partial_sync(rec, update_data, ok) ==
    IF ok THEN Merge(rec, update_data) ELSE rec

\* lines 774-777: the except of update_project_partial_sync swallows the
\* failure, so the call returns to its caller whether or not the store took
\* the update, and the worker goes on to the statement after the call.
AfterPartialUpdateRaises(ok, next) == IF ok THEN next ELSE "except"
AfterPartialUpdate(ok, next) == next

\* lines 670-674: the flag is read from the entry of the given client id
should_interrupt_any(c) ==
    \E d \in ClientIds : active_extractions[d].status # "absent"
                           /\ active_extractions[d].interrupt_requested
should_interrupt(c) ==
    IF active_extractions[c].status = "absent" THEN FALSE
    ELSE active_extractions[c].interrupt_requested

\* queue.Queue: put at the tail, get from the head
QueuePut(q, msgs) == q \o msgs
QueueFront(q) == Head(q)
QueueRest(q) == Tail(q)

HasKind(s, k) == \E x \in 1..Len(s) : s[x].kind = k

\* The messages of the given kinds, numbered in emission order.
NewMessages(j, kinds) ==
    [x \in 1..Len(kinds) |->
        [job |-> j, n |-> Len(emitted[j]) + x, kind |-> kinds[x]]]

\* lines 319-338 (send_log) and the guarded puts of lines 624-635, 709-721:
\* the messages go to the queue mapped under the job's client id, if any.
SendLogs(j, kinds) ==
    LET c == job[j].client_id
        msgs == NewMessages(j, kinds)
    IN  /\ emitted' = [emitted EXCEPT ![j] = @ \o msgs]
        /\ queues' = [q \in Jobs |->
                        IF q \in message_queues[c]
                        THEN QueuePut(queues[q], msgs) ELSE queues[q]]

\* ------------------------------------------------------ process_network_data
\* src/network_analyzer/app.py, lines 45-104 (main.py, lines 44-103, has the
\* same statements).  A log is told by what the loop body does with it:
\*   no_message       a dict without the key 'message' (line 50)
\*   bad_json         log['message'] is not JSON: json.loads raises
\*                    JSONDecodeError (line 54)
\*   not_object       log['message'] is JSON but not an object ('[]', 'null',
\*                    '5'): the subscript ['message'] raises TypeError (line 54)
\*   other_method     a well-formed message of another method
\*   request          a well-formed Network.requestWillBeSent
\*   request_missing  a Network.requestWillBeSent lacking a key read at
\*                    lines 58-63: KeyError
\*   response         a well-formed Network.responseReceived
\*   response_missing a Network.responseReceived with a requestId and
\*                    without 'response': KeyError at line 70
RequestIds == {1, 2}

\* timing.get(..., 0) at lines 73-75: a response without timing reads zeros.
ZeroTiming ==
    [connectStart |-> 0, connectEnd |-> 0, sendEnd |-> 0,
     receiveHeadersEnd |-> 0, responseEnd |-> 0]

\* The timings of a response, in whole milliseconds (which round(x, 2) of
\* lines 84-87 leaves as they are): none, one with connectStart and
\* connectEnd at -1 and no responseEnd, and one with every phase present.
Timings ==
    {ZeroTiming,
     [connectStart |-> -1, connectEnd |-> -1, sendEnd |-> 1,
      receiveHeadersEnd |-> 3, responseEnd |-> 0],
     [connectStart |-> 0, connectEnd |-> 2, sendEnd |-> 2,
      receiveHeadersEnd |-> 5, responseEnd |-> 9]}

NetworkLogs ==
    {[shape |-> sh, id |-> 0, timing |-> ZeroTiming] :
        sh \in {"no_message", "bad_json", "not_object", "other_method"}}
    \cup {[shape |-> sh, id |-> r, timing |-> ZeroTiming] :
        sh \in {"request", "request_missing", "response_missing"},
        r \in RequestIds}
    \cup {[shape |-> "response", id |-> r, timing |-> t] :
        r \in RequestIds, t \in Timings}

LogLists == UNION {[1..n -> NetworkLogs] : n \in 0..MaxLogs}

\* max(0, x) of lines 73-75
Max0(x) == IF x > 0 THEN x ELSE 0

\* lines 73-99: the entry appended for a response; request and response
\* stand for what the entry copies from the stored request and from the
\* response log.
NetworkEntry(req, k, t) ==
    LET connect_time == Max0(t.connectEnd - t.connectStart)
        wait_time == Max0(t.receiveHeadersEnd - t.sendEnd)
        receive_time == Max0(t.responseEnd - t.receiveHeadersEnd)
    IN [request |-> req, response |-> k,
        connect |-> connect_time, wait |-> wait_time, receive |-> receive_time,
        total |-> connect_time + wait_time + receive_time]

\* No call: lines 46-47 give each call an empty entries list and an empty
\* request_data (0: the requestId is not a key).
NoCall ==
    [status |-> "idle", logs |-> <<>>, i |-> 0, entries |-> <<>>,
     request_data |-> [r \in RequestIds |-> 0]]

\* ------------------------------------------------------------------- Init
Init ==
    /\ job = [j \in Jobs |->
                [pc |-> "new", client_id |-> "a", ws |-> FALSE,
                 keywords |-> "none", pages_limit |-> 0]]
    /\ active_extractions = [c \in ClientIds |-> NoEntry]
    /\ extraction_stats = {}
    /\ message_queues = [c \in ClientIds |-> {}]
    /\ queues = [j \in Jobs |-> <<>>]
    /\ consumer = [j \in Jobs |-> [pc |-> "none", q |-> j, failed |-> {}]]
    /\ worker = [j \in Jobs |-> NoWorker]
    /\ processing_status = [j \in Jobs |-> NoStatus]
    /\ db = [j \in Jobs |-> NoRecord]
    /\ emitted = [j \in Jobs |-> <<>>]
    /\ delivered = [c \in ClientIds |-> [got |-> {}, late |-> {}]]
    /\ fetched = [j \in Jobs |-> <<>>]
    /\ intr_ret = [c \in ClientIds |-> "none"]
    /\ status_query = [c \in ClientIds |-> "idle"]
    /\ net = NoCall
    /\ early_intr = [j \in Jobs |-> FALSE]
    /\ end_writes = [j \in Jobs |-> 0]

\* ------------------------------------------------- add_project_with_scraping
\* lines 60-62, 173-176: an empty url raises HTTPException(400) inside the
\* try, which the handler's own except turns into HTTPException(500).
add_project_rejected(j) ==
    /\ job[j].pc = "new"
    /\ job' = [job EXCEPT ![j].pc = "http_500"]
    /\ UNCHANGED <<active_extractions, extraction_stats, message_queues, queues,
                   consumer, worker, processing_status, db, emitted, delivered,
                   fetched, intr_ret, status_query, net, early_intr, end_writes>>

\* lines 64-144: validation, the insert, the registry entry, the statistics
\* and, with a ws_manager, the queue and the consumer task.  Without a
\* ws_manager the handler returns here (line 167): the submit of line 155
\* is inside the `if ws_manager:` block.
add_project_register(j, c, ws, kw, scrape_mode, pages_limit) ==
    LET limit == NormalizeLimit(scrape_mode, pages_limit) IN
    /\ job[j].pc = "new"
    /\ job' = [job EXCEPT ![j] =
                 [pc |-> IF ws THEN "await_send" ELSE "returned",
                  client_id |-> c, ws |-> ws, keywords |-> kw,
                  pages_limit |-> limit]]
    /\ processing_status' = [processing_status EXCEPT ![j] = InitialStatus(limit)]
    /\ db' = [db EXCEPT ![j] = InitialRecord(limit)]
    /\ active_extractions' = [active_extractions EXCEPT ![c] =
                 [status |-> STATUS_RUNNING, interrupt_requested |-> FALSE,
                  last_updated |-> "register", project_id |-> j]]
    /\ extraction_stats' = extraction_stats \cup {c}
    /\ message_queues' = IF ws THEN [message_queues EXCEPT ![c] = {j}]
                         ELSE message_queues
    /\ consumer' = IF ws THEN [consumer EXCEPT ![j] =
                                [pc |-> "start", q |-> j, failed |-> {}]]
                   ELSE consumer
    /\ UNCHANGED <<queues, worker, emitted, delivered, fetched, intr_ret, status_query, net,
                   early_intr, end_writes>>

\* lines 146-172: the project_created message went out; the worker is handed
\* to the thread pool and the handler returns.
add_project_submit(j) ==
    /\ job[j].pc = "await_send"
    /\ job' = [job EXCEPT ![j].pc = "returned"]
    /\ worker' = [worker EXCEPT ![j].pc = "start"]
    /\ UNCHANGED <<active_extractions, extraction_stats, message_queues, queues,
                   consumer, processing_status, db, emitted, delivered, fetched,
                   intr_ret, status_query, net, early_intr, end_writes>>

\* lines 147-152, 173-176: send_personal_json raises; the handler answers 500
\* with the entry, the statistics, the queue and the consumer left in place.
add_project_send_failed(j) ==
    /\ job[j].pc = "await_send"
    /\ job' = [job EXCEPT ![j].pc = "http_500"]
    /\ UNCHANGED <<active_extractions, extraction_stats, message_queues, queues,
                   consumer, worker, processing_status, db, emitted, delivered,
                   fetched, intr_ret, status_query, net, early_intr, end_writes>>

\* ------------------------------------------------------------ consume_messages
\* The consumer tasks share one event loop: between two awaits (from the
\* wake-up after the sleep of line 198 to the break of line 210) no other
\* consumer runs.
OtherConsumerMidSlice(j) ==
    \E k \in Jobs \ {j} : consumer[k].pc \in {"empty", "del_queue", "del_entry"}

\* lines 182-186
consume_start(j) ==
    LET c == job[j].client_id IN
    /\ consumer[j].pc = "start"
    /\ ~OtherConsumerMidSlice(j)
    /\ consumer' = [consumer EXCEPT ![j] =
                      IF message_queues[c] = {} THEN [@ EXCEPT !.pc = "stopped"]
                      ELSE [pc |-> "poll", failed |-> @.failed,
                            q |-> CHOOSE q \in message_queues[c] : TRUE]]
    /\ UNCHANGED <<job, active_extractions, extraction_stats, message_queues,
                   queues, worker, processing_status, db, emitted, delivered,
                   fetched, intr_ret, status_query, net, early_intr, end_writes>>

\* lines 193-195: a message is taken and forwarded to the subscriber
consume_forward(j) ==
    LET q == consumer[j].q
        m == QueueFront(queues[q])
    IN
    /\ consumer[j].pc = "poll"
    /\ ~OtherConsumerMidSlice(j)
    /\ queues[q] # <<>>
    /\ delivered' = [delivered EXCEPT
                       ![job[j].client_id] =
                           [got |-> @.got \cup {m},
                            late |-> IF \E d \in @.got : d.job = m.job /\ d.n > m.n
                                     THEN @.late \cup {m} ELSE @.late]]
    /\ queues' = [queues EXCEPT ![q] = QueueRest(@)]
    /\ UNCHANGED <<job, active_extractions, extraction_stats, message_queues,
                   consumer, worker, processing_status, db, emitted, fetched,
                   intr_ret, status_query, net, early_intr, end_writes>>

\* lines 212-215: the except inside the loop prints, sleeps one second and
\* lets the loop go on with the next poll.
AfterSendErrorStops == "stopped"
AfterSendError == "poll"

\* lines 193-194, 212-215: q.get took the message and send_personal_json
\* raised; the message is gone from the queue and the subscriber never
\* gets it.
consume_forward_failed(j) ==
    LET q == consumer[j].q
        m == QueueFront(queues[q])
    IN
    /\ consumer[j].pc = "poll"
    /\ ~OtherConsumerMidSlice(j)
    /\ queues[q] # <<>>
    /\ Cardinality(consumer[j].failed) < MaxSendFailures
    /\ queues' = [queues EXCEPT ![q] = QueueRest(@)]
    /\ consumer' = [consumer EXCEPT ![j].failed = @ \cup {m},
                                    ![j].pc = AfterSendError]
    /\ UNCHANGED <<job, active_extractions, extraction_stats, message_queues,
                   worker, processing_status, db, emitted, delivered, fetched,
                   intr_ret, status_query, net, early_intr, end_writes>>

\* lines 196-198: queue.Empty, then the sleep
consume_poll_empty(j) ==
    /\ consumer[j].pc = "poll"
    /\ ~OtherConsumerMidSlice(j)
    /\ queues[consumer[j].q] = <<>>
    /\ consumer' = [consumer EXCEPT ![j].pc = "check"]
    /\ UNCHANGED <<job, active_extractions, extraction_stats, message_queues,
                   queues, worker, processing_status, db, emitted, delivered,
                   fetched, intr_ret, status_query, net, early_intr, end_writes>>

\* lines 201-202: the test made after the sleep
ExtractionDone(c) ==
    \/ active_extractions[c].status = "absent"
    \/ active_extractions[c].status \in TerminalStatuses

consume_check(j) ==
    /\ consumer[j].pc = "check"
    /\ ~OtherConsumerMidSlice(j)
    /\ consumer' = [consumer EXCEPT ![j].pc =
                      IF ExtractionDone(job[j].client_id) THEN "empty" ELSE "poll"]
    /\ UNCHANGED <<job, active_extractions, extraction_stats, message_queues,
                   queues, worker, processing_status, db, emitted, delivered,
                   fetched, intr_ret, status_query, net, early_intr, end_writes>>

\* line 204
consume_empty(j) ==
    /\ consumer[j].pc = "empty"
    /\ consumer' = [consumer EXCEPT ![j].pc =
                      IF queues[consumer[j].q] = <<>> THEN "del_queue" ELSE "poll"]
    /\ UNCHANGED <<job, active_extractions, extraction_stats, message_queues,
                   queues, worker, processing_status, db, emitted, delivered,
                   fetched, intr_ret, status_query, net, early_intr, end_writes>>

\* lines 206-207
consume_del_queue(j) ==
    /\ consumer[j].pc = "del_queue"
    /\ message_queues' = [message_queues EXCEPT ![job[j].client_id] = {}]
    /\ consumer' = [consumer EXCEPT ![j].pc = "del_entry"]
    /\ UNCHANGED <<job, active_extractions, extraction_stats, queues, worker,
                   processing_status, db, emitted, delivered, fetched, intr_ret, status_query, net,
                   early_intr, end_writes>>

\* lines 208-210
consume_del_entry(j) ==
    /\ consumer[j].pc = "del_entry"
    /\ active_extractions' = [active_extractions EXCEPT ![job[j].client_id] = NoEntry]
    /\ consumer' = [consumer EXCEPT ![j].pc = "stopped"]
    /\ UNCHANGED <<job, extraction_stats, message_queues, queues, worker,
                   processing_status, db, emitted, delivered, fetched, intr_ret, status_query, net,
                   early_intr, end_writes>>

\* ------------------------------------------------------- interrupt_extraction
\* lines 726-734
interrupt_extraction(c) ==
    /\ IF active_extractions[c].status = "absent"
       THEN /\ intr_ret' = [intr_ret EXCEPT ![c] = "false"]
            /\ UNCHANGED <<active_extractions, early_intr>>
       ELSE /\ active_extractions' = [active_extractions EXCEPT ![c] =
                    [@ EXCEPT !.interrupt_requested = TRUE,
                              !.last_updated = "interrupt"]]
            /\ intr_ret' = [intr_ret EXCEPT ![c] = "true"]
            /\ early_intr' = [j \in Jobs |->
                    \/ early_intr[j]
                    \/ /\ job[j].client_id = c
                       /\ active_extractions[c].project_id = j
                       /\ active_extractions[c].status = STATUS_RUNNING
                       /\ worker[j].pc # "done"
                       /\ fetched[j] = <<>>]
    /\ UNCHANGED <<job, extraction_stats, message_queues, queues, consumer,
                   worker, processing_status, db, emitted, delivered, fetched,
                   end_writes, status_query, net>>

\* ------------------------------------------------------ process_network_data
\* What a step of process_network_data leaves alone.
NetFrame ==
    UNCHANGED <<job, active_extractions, extraction_stats, message_queues,
                queues, consumer, worker, processing_status, db, emitted,
                delivered, fetched, intr_ret, status_query, early_intr,
                end_writes>>

\* lines 45-47
process_network_data_call(logs) ==
    /\ net.status = "idle"
    /\ net' = [NoCall EXCEPT !.status = "running", !.logs = logs]
    /\ NetFrame

\* lines 49-102: one iteration of the loop.  The except of line 100 catches
\* JSONDecodeError and KeyError and goes on; a TypeError is not caught and
\* leaves the function.
process_network_data_log ==
    LET k == net.i + 1
        log == net.logs[k]
        stored == net.request_data[log.id]
    IN
    /\ net.status = "running"
    /\ net.i < Len(net.logs)
    /\ net' =
         CASE log.shape = "not_object" -> [net EXCEPT !.status = "raised"]
           [] log.shape = "request" ->
                [net EXCEPT !.i = k, !.request_data[log.id] = k]
           [] log.shape = "response" /\ stored # 0 ->
                [net EXCEPT !.i = k,
                    !.entries = Append(@, NetworkEntry(stored, k, log.timing))]
           [] OTHER -> [net EXCEPT !.i = k]
    /\ NetFrame

\* line 104
process_network_data_return ==
    /\ net.status = "running"
    /\ net.i = Len(net.logs)
    /\ net' = [net EXCEPT !.status = "returned"]
    /\ NetFrame

\* ------------------------------------------------------ get_extraction_status
\* lines 738-744: the presence test and the copy of the entry run on the
\* caller's thread without a suspension point; a missing entry returns None,
\* an entry without statistics returns the copy.  With statistics present
\* the call has passed the test of line 744 and has still to read them.
get_extraction_status_test(c) ==
    /\ status_query[c] # "at_745"
    /\ status_query' = [status_query EXCEPT ![c] =
           IF active_extractions[c].status = "absent" THEN "None"
           ELSE IF c \in extraction_stats THEN "at_745"
           ELSE "entry"]
    /\ UNCHANGED <<job, active_extractions, extraction_stats, message_queues,
                   queues, consumer, worker, processing_status, db, emitted,
                   delivered, fetched, intr_ret, early_intr, end_writes, net>>

\* lines 745-747: extraction_stats[client_id] is read; the worker thread may
\* have deleted the key (line 668) since the test, and then the subscript
\* raises KeyError out of the call.
get_extraction_status_read(c) ==
    /\ status_query[c] = "at_745"
    /\ status_query' = [status_query EXCEPT ![c] =
           IF c \in extraction_stats THEN "entry_stats" ELSE "KeyError"]
    /\ UNCHANGED <<job, active_extractions, extraction_stats, message_queues,
                   queues, consumer, worker, processing_status, db, emitted,
                   delivered, fetched, intr_ret, early_intr, end_writes, net>>

\* --------------------------------------------------------- run_extraction_thread
\* What the worker leaves alone in every step.
WorkerFrame ==
    UNCHANGED <<job, extraction_stats, message_queues, consumer, delivered,
                intr_ret, status_query, net, early_intr>>

\* lines 364-387: the fresh processing_status and the first logs.  The join
\* of line 382 raises TypeError when the keyword list holds a non-string.
run_start(j, env) ==
    /\ worker[j].pc = "start"
    /\ \E include_meta \in env.include_meta :
         LET kw == job[j].keywords
             kinds == IF kw = "nonstr" THEN <<"info">>
                      ELSE IF kw = "strs"
                           THEN IF include_meta
                                THEN <<"info", "info", "info", "info">>
                                ELSE <<"info", "info", "info">>
                           ELSE <<"info", "info">>
         IN  /\ SendLogs(j, kinds)
             /\ worker' = [worker EXCEPT ![j].pc =
                             IF kw = "nonstr" THEN "except" ELSE "robots"]
    /\ processing_status' = [processing_status EXCEPT ![j] =
                                InitialStatus(job[j].pages_limit)]
    /\ UNCHANGED <<active_extractions, db, fetched, end_writes>>
    /\ WorkerFrame

\* lines 388-408
run_robots(j, env) ==
    /\ worker[j].pc = "robots"
    /\ \E r \in env.robots :
         /\ processing_status' = [processing_status EXCEPT
                ![j].robots_status = r,
                ![j].errors = IF r = "success" THEN @ ELSE Append(@, "robots")]
         /\ SendLogs(j, <<IF r = "success" THEN "success" ELSE "error", "info">>)
    /\ worker' = [worker EXCEPT ![j].pc = "sitemap"]
    /\ UNCHANGED <<active_extractions, db, fetched, end_writes>>
    /\ WorkerFrame

\* line 407: sitemap_pages before the sitemap is read
NoSitemapPages == <<>>

DefaultSitemapPages == <<UrlPage>>

\* lines 407-441 and 525-529: res.n pages found, or the collaborator raised
run_sitemap(j, env) ==
    /\ worker[j].pc = "sitemap"
    /\ \E res \in env.sitemap :
         /\ LET found == res.n > 0
                pages == IF found THEN [x \in 1..res.n |-> x] ELSE DefaultSitemapPages
                st == IF found THEN "success"
                      ELSE IF res.exc THEN "error" ELSE "no_pages"
                kind == IF found THEN "success"
                        ELSE IF res.exc THEN "error" ELSE "warning"
                filtering == job[j].keywords = "strs"
            IN  /\ processing_status' = [processing_status EXCEPT
                      ![j].sitemap_status = st,
                      ![j].pages_found = IF found THEN res.n ELSE @,
                      ![j].errors = IF found THEN @ ELSE Append(@, "sitemap")]
                /\ worker' = [worker EXCEPT
                      ![j].sitemap_pages = pages,
                      ![j].i = 0,
                      ![j].pages_to_process =
                          IF filtering THEN <<>>
                          ELSE Slice(pages, job[j].pages_limit),
                      ![j].pc = IF filtering THEN "filter" ELSE "scrape"]
                /\ SendLogs(j, <<kind, "info">>)
    /\ UNCHANGED <<active_extractions, db, fetched, end_writes>>
    /\ WorkerFrame

\* lines 461-466: keyword_matches after the check of one page
MatchesAfterCheckAlways(keyword_matches, page, out) == keyword_matches \cup {page}

MatchesAfterCheck(keyword_matches, page, out) ==
    IF out = "match" THEN keyword_matches \cup {page} ELSE keyword_matches

\* lines 443-486: one iteration of the prefilter loop.  check_page_for_keywords
\* catches its own failures and returns (False, [], {}, {}) (lines 314-317),
\* which the caller reads as "no keywords".
run_filter(j, env) ==
    LET w == worker[j]
        cands == Slice(w.sitemap_pages, job[j].pages_limit)
    IN
    /\ w.pc = "filter"
    /\ w.i < Len(cands)
    /\ IF should_interrupt(job[j].client_id)
       THEN /\ SendLogs(j, <<"warning">>)
            /\ worker' = [worker EXCEPT ![j].pc = "hi_check"]
       ELSE \E out \in env.prefilter :
              LET page == cands[w.i + 1] IN
              /\ worker' = [worker EXCEPT
                    ![j].i = @ + 1,
                    ![j].pages_checked = @ + 1,
                    ![j].filtered_pages =
                        IF out = "match" THEN Append(@, page) ELSE @,
                    ![j].keyword_matches = MatchesAfterCheck(@, page, out),
                    ![j].reported =
                        IF out = "match" THEN @ \cup {page} ELSE @,
                    ![j].failed_checks =
                        IF out = "fetch_error" THEN @ \cup {page} ELSE @]
              /\ SendLogs(j, IF out = "match"
                             THEN <<"info", "success", "detail">>
                             ELSE <<"info", "warning">>)
    /\ UNCHANGED <<active_extractions, processing_status, db, fetched, end_writes>>
    /\ WorkerFrame

\* lines 488-529: the summary of the prefilter and the choice of the pages
run_filter_done(j, env) ==
    LET w == worker[j]
        cands == Slice(w.sitemap_pages, job[j].pages_limit)
        pages_with_keywords == Cardinality(w.keyword_matches)
        none == pages_with_keywords = 0
    IN
    /\ w.pc = "filter"
    /\ w.i = Len(cands)
    /\ processing_status' = [processing_status EXCEPT
          ![j].keyword_search_results = IF none THEN "no_matches" ELSE @,
          ![j].keyword_matches = w.keyword_matches,
          ![j].pages_with_keywords = pages_with_keywords,
          ![j].pages_checked = w.pages_checked]
    /\ \E ok \in env.persist_ok :
         /\ db' = [db EXCEPT ![j] =
                  IF none
                  THEN update_project_partial_sync(@,
                          [keyword_search_results |-> "no_matches",
                           pages_checked |-> w.pages_checked], ok)
                  ELSE @]
         /\ worker' = [worker EXCEPT
               ![j].i = 0,
               ![j].pages_to_process =
                   IF Len(w.filtered_pages) > 0 THEN w.filtered_pages
                   ELSE Slice(w.sitemap_pages,
                              Min(job[j].pages_limit, Len(w.sitemap_pages))),
               ![j].pc = IF none THEN AfterPartialUpdate(ok, "scrape")
                         ELSE "scrape"]
    /\ SendLogs(j, <<IF none THEN "warning" ELSE "info", "info", "info">>)
    /\ UNCHANGED <<active_extractions, fetched, end_writes>>
    /\ WorkerFrame

\* lines 575-583: the per-page except ends the iteration, which goes on to
\* the check made after each page
AfterPageErrorFatal == "except"

AfterPageError == "scrape_check"

\* lines 532-581: one page of the fetch loop; scrape_website or
\* store_in_mongodb may raise, which is caught per page.
run_scrape(j, env) ==
    LET w == worker[j]
        page == w.pages_to_process[w.i + 1]
        pre == IF page \in w.keyword_matches THEN <<"info", "detail">>
               ELSE <<"info">>
    IN
    /\ w.pc = "scrape"
    /\ w.i < Len(w.pages_to_process)
    /\ fetched' = [fetched EXCEPT ![j] = Append(@, page)]
    /\ \E ok \in env.scrape_ok :
         /\ worker' = [worker EXCEPT
               ![j].scraped_pages = IF ok THEN Append(@, page) ELSE @,
               ![j].pc = IF ok THEN "scrape_check" ELSE AfterPageError]
         /\ processing_status' = [processing_status EXCEPT
               ![j].errors = IF ok THEN @ ELSE Append(@, "scrape")]
         /\ SendLogs(j, pre \o (IF ok THEN <<"success", "detail", "detail">>
                                ELSE <<"error">>))
    /\ UNCHANGED <<active_extractions, db, end_writes>>
    /\ WorkerFrame

\* lines 583-587: the check made after each page
run_scrape_check(j) ==
    LET w == worker[j] IN
    /\ w.pc = "scrape_check"
    /\ IF should_interrupt(job[j].client_id)
       THEN /\ SendLogs(j, <<"warning">>)
            /\ worker' = [worker EXCEPT ![j].pc = "hi_check"]
       ELSE /\ worker' = [worker EXCEPT
                  ![j].i = @ + 1,
                  ![j].pc = IF w.i + 1 < Len(w.pages_to_process)
                            THEN "scrape" ELSE "complete"]
            /\ UNCHANGED <<emitted, queues>>
    /\ UNCHANGED <<active_extractions, processing_status, db, fetched, end_writes>>
    /\ WorkerFrame

\* lines 590-592
CompletedStatus(ps, n) ==
    [ps EXCEPT !.pages_scraped = n, !.extraction_status = STATUS_COMPLETED,
               !.end_time = TRUE]

\* lines 589-621: the final counts, the two partial updates and the last log
run_complete(j, env) ==
    LET w == worker[j]
        ps == CompletedStatus(processing_status[j], Len(w.scraped_pages))
    IN
    /\ w.pc = "complete"
    /\ processing_status' = [processing_status EXCEPT ![j] = ps]
    /\ end_writes' = [end_writes EXCEPT ![j] =
                        IF ps.end_time THEN @ + 1 ELSE @]
    /\ \E ok1 \in env.persist_ok, ok2 \in env.persist_ok :
         /\ db' = [db EXCEPT ![j] =
                  update_project_partial_sync(
                    update_project_partial_sync(@,
                       [scraped_pages |-> w.scraped_pages,
                        pages_scraped |-> Len(w.scraped_pages),
                        extraction_status |-> STATUS_COMPLETED,
                        end_time |-> ps.end_time], ok1),
                    [keyword_matches |-> w.keyword_matches,
                     pages_with_keywords |-> Cardinality(w.keyword_matches),
                     pages_checked |-> w.pages_checked], ok2)]
         /\ worker' = [worker EXCEPT ![j].pc =
               AfterPartialUpdate(ok1, AfterPartialUpdate(ok2, "complete_check"))]
    /\ SendLogs(j, <<"info">>)
    /\ UNCHANGED <<active_extractions, fetched>>
    /\ WorkerFrame

\* line 624
run_complete_check(j) ==
    /\ worker[j].pc = "complete_check"
    /\ worker' = [worker EXCEPT ![j].pc =
                    IF message_queues[job[j].client_id] # {}
                    THEN "complete_put" ELSE "finally"]
    /\ UNCHANGED <<active_extractions, processing_status, db, emitted, queues,
                   fetched, end_writes>>
    /\ WorkerFrame

\* lines 625-635: what the worker puts last on the COMPLETED path
CompletionThenLog == <<"completion", "info">>

CompletionMessages == <<"completion">>

\* lines 625-635: the lookup raises KeyError when the mapping went away after
\* the test of line 624, which the except of line 637 catches.
run_complete_put(j) ==
    /\ worker[j].pc = "complete_put"
    /\ IF message_queues[job[j].client_id] # {}
       THEN /\ SendLogs(j, CompletionMessages)
            /\ worker' = [worker EXCEPT ![j].pc = "finally"]
       ELSE /\ worker' = [worker EXCEPT ![j].pc = "except"]
            /\ UNCHANGED <<emitted, queues>>
    /\ UNCHANGED <<active_extractions, processing_status, db, fetched, end_writes>>
    /\ WorkerFrame

\* ------------------------------------------------------------ handle_interruption
\* lines 448, 587: `return` after handle_interruption
AfterInterruption == "finally"

\* lines 676-724: the positions of the worker inside handle_interruption
HandlerPcs == {"hi_check", "hi_status", "hi_updated", "hi_persist", "hi_warn", "hi_put"}

\* lines 678-679
hi_check(j) ==
    /\ worker[j].pc = "hi_check"
    /\ worker' = [worker EXCEPT ![j].pc =
                    IF active_extractions[job[j].client_id].status = "absent"
                    THEN AfterInterruption ELSE "hi_status"]
    /\ UNCHANGED <<active_extractions, processing_status, db, emitted, queues,
                   fetched, end_writes>>
    /\ WorkerFrame

\* line 683; a KeyError is caught at line 722
hi_status(j) ==
    LET c == job[j].client_id IN
    /\ worker[j].pc = "hi_status"
    /\ IF active_extractions[c].status = "absent"
       THEN /\ worker' = [worker EXCEPT ![j].pc = AfterInterruption]
            /\ UNCHANGED active_extractions
       ELSE /\ active_extractions' = [active_extractions EXCEPT
                  ![c].status = STATUS_INTERRUPTED]
            /\ worker' = [worker EXCEPT ![j].pc = "hi_updated"]
    /\ UNCHANGED <<processing_status, db, emitted, queues, fetched, end_writes>>
    /\ WorkerFrame

\* line 684; a KeyError is caught at line 722
hi_updated(j) ==
    LET c == job[j].client_id IN
    /\ worker[j].pc = "hi_updated"
    /\ IF active_extractions[c].status = "absent"
       THEN /\ worker' = [worker EXCEPT ![j].pc = AfterInterruption]
            /\ UNCHANGED active_extractions
       ELSE /\ active_extractions' = [active_extractions EXCEPT
                  ![c].last_updated = "worker"]
            /\ worker' = [worker EXCEPT ![j].pc = "hi_persist"]
    /\ UNCHANGED <<processing_status, db, emitted, queues, fetched, end_writes>>
    /\ WorkerFrame

\* lines 686-700: the status, end_time and the update of the whole
\* processing_status
hi_persist(j, env) ==
    LET ps == [processing_status[j] EXCEPT
                  !.extraction_status = STATUS_INTERRUPTED, !.end_time = TRUE]
    IN
    /\ worker[j].pc = "hi_persist"
    /\ processing_status' = [processing_status EXCEPT ![j] = ps]
    /\ end_writes' = [end_writes EXCEPT ![j] = @ + 1]
    /\ \E ok \in env.persist_ok :
         /\ db' = [db EXCEPT ![j] = update_project_partial_sync(@, ps, ok)]
         /\ worker' = [worker EXCEPT ![j].pc = AfterPartialUpdate(ok, "hi_warn")]
    /\ UNCHANGED <<active_extractions, emitted, queues, fetched>>
    /\ WorkerFrame

\* line 703
hi_warn(j) ==
    /\ worker[j].pc = "hi_warn"
    /\ SendLogs(j, <<"warning">>)
    /\ worker' = [worker EXCEPT ![j].pc = "hi_put"]
    /\ UNCHANGED <<active_extractions, processing_status, db, fetched, end_writes>>
    /\ WorkerFrame

\* lines 709-721: a KeyError of the lookup is caught at line 722 and has the
\* outcome of the test of line 709 failing.
hi_put(j) ==
    /\ worker[j].pc = "hi_put"
    /\ IF message_queues[job[j].client_id] # {}
       THEN SendLogs(j, <<"completion">>)
       ELSE UNCHANGED <<emitted, queues>>
    /\ worker' = [worker EXCEPT ![j].pc = AfterInterruption]
    /\ UNCHANGED <<active_extractions, processing_status, db, fetched, end_writes>>
    /\ WorkerFrame

\* --------------------------------------------- the except and finally of the worker
\* lines 637-659: the positions of the worker inside its except handler
ErrorPcs == {"except", "err_check", "err_status", "err_updated", "err_persist"}

\* lines 637-641
run_except(j) ==
    /\ worker[j].pc = "except"
    /\ SendLogs(j, <<"error">>)
    /\ worker' = [worker EXCEPT ![j].pc = "err_check"]
    /\ UNCHANGED <<active_extractions, processing_status, db, fetched, end_writes>>
    /\ WorkerFrame

\* line 644
err_check(j) ==
    /\ worker[j].pc = "err_check"
    /\ worker' = [worker EXCEPT ![j].pc =
                    IF active_extractions[job[j].client_id].status = "absent"
                    THEN "err_persist" ELSE "err_status"]
    /\ UNCHANGED <<active_extractions, processing_status, db, emitted, queues,
                   fetched, end_writes>>
    /\ WorkerFrame

\* line 645; a KeyError here is raised inside the except block and leaves
\* the worker through the finally
err_status(j) ==
    LET c == job[j].client_id IN
    /\ worker[j].pc = "err_status"
    /\ IF active_extractions[c].status = "absent"
       THEN /\ worker' = [worker EXCEPT ![j].pc = "finally", ![j].raised = TRUE]
            /\ UNCHANGED active_extractions
       ELSE /\ active_extractions' = [active_extractions EXCEPT
                  ![c].status = STATUS_ERROR]
            /\ worker' = [worker EXCEPT ![j].pc = "err_updated"]
    /\ UNCHANGED <<processing_status, db, emitted, queues, fetched, end_writes>>
    /\ WorkerFrame

\* line 646; as for line 645
err_updated(j) ==
    LET c == job[j].client_id IN
    /\ worker[j].pc = "err_updated"
    /\ IF active_extractions[c].status = "absent"
       THEN /\ worker' = [worker EXCEPT ![j].pc = "finally", ![j].raised = TRUE]
            /\ UNCHANGED active_extractions
       ELSE /\ active_extractions' = [active_extractions EXCEPT
                  ![c].last_updated = "worker"]
            /\ worker' = [worker EXCEPT ![j].pc = "err_persist"]
    /\ UNCHANGED <<processing_status, db, emitted, queues, fetched, end_writes>>
    /\ WorkerFrame

\* lines 649-659
err_persist(j, env) ==
    LET ps == [processing_status[j] EXCEPT
                  !.extraction_status = STATUS_ERROR, !.end_time = TRUE,
                  !.errors = Append(@, "fatal")]
    IN
    /\ worker[j].pc = "err_persist"
    /\ processing_status' = [processing_status EXCEPT ![j] = ps]
    /\ end_writes' = [end_writes EXCEPT ![j] = @ + 1]
    /\ \E ok \in env.persist_ok :
         /\ db' = [db EXCEPT ![j] = update_project_partial_sync(@, ps, ok)]
         /\ worker' = [worker EXCEPT ![j].pc = AfterPartialUpdate(ok, "finally")]
    /\ UNCHANGED <<active_extractions, emitted, queues, fetched>>
    /\ WorkerFrame

\* lines 660-668
run_finally(j) ==
    /\ worker[j].pc = "finally"
    /\ extraction_stats' = extraction_stats \ {job[j].client_id}
    /\ worker' = [worker EXCEPT ![j].pc = "done"]
    /\ UNCHANGED <<job, active_extractions, message_queues, queues, consumer,
                   processing_status, db, emitted, delivered, fetched, intr_ret, status_query, net,
                   early_intr, end_writes>>

\* ------------------------------------------------------------ specifications
\* The inputs of a submission in the single-job specification: with and
\* without a ws_manager; no keywords, a list of strings, or a list holding a
\* non-string; every mode; a pages_limit below 1 and one that cuts the sitemap.
SpecInputs ==
    [client_id |-> SpecClients,
     ws_manager |-> BOOLEAN,
     search_keywords |-> {"none", "strs", "nonstr"},
     scrape_mode |-> {"all", "limited", "other"},
     pages_limit |-> {0, 1}]

\* What the collaborators may answer.  The sitemap returns res.n pages or
\* raises; the prefilter reports a match, no match, or fails inside
\* check_page_for_keywords; scrape_website / store_in_mongodb succeed or raise.
SitemapOutcomes == {r \in [exc : BOOLEAN, n : 0..MaxPages] : r.exc => r.n = 0}

\* The environment of the single-job specification: every collaborator
\* outcome, a store whose partial updates may fail, and include_meta at its
\* default (line 55).
SpecEnv ==
    [include_meta |-> {TRUE},
     robots |-> {"success", "failed", "error"},
     sitemap |-> SitemapOutcomes,
     prefilter |-> {"match", "nomatch", "fetch_error"},
     scrape_ok |-> BOOLEAN,
     persist_ok |-> BOOLEAN]

Facade(j, in) ==
    \/ add_project_rejected(j)
    \/ \E c \in in.client_id, ws \in in.ws_manager, kw \in in.search_keywords,
          m \in in.scrape_mode, pl \in in.pages_limit :
            add_project_register(j, c, ws, kw, m, pl)
    \/ add_project_submit(j)
    \/ add_project_send_failed(j)

Consumer(j) ==
    \/ consume_start(j)
    \/ consume_forward(j)
    \/ consume_poll_empty(j)
    \/ consume_check(j)
    \/ consume_empty(j)
    \/ consume_del_queue(j)
    \/ consume_del_entry(j)

Worker(j, env) ==
    \/ run_start(j, env)
    \/ run_robots(j, env)
    \/ run_sitemap(j, env)
    \/ run_filter(j, env)
    \/ run_filter_done(j, env)
    \/ run_scrape(j, env)
    \/ run_scrape_check(j)
    \/ run_complete(j, env)
    \/ run_complete_check(j)
    \/ run_complete_put(j)
    \/ hi_check(j)
    \/ hi_status(j)
    \/ hi_updated(j)
    \/ hi_persist(j, env)
    \/ hi_warn(j)
    \/ hi_put(j)
    \/ run_except(j)
    \/ err_check(j)
    \/ err_status(j)
    \/ err_updated(j)
    \/ err_persist(j, env)
    \/ run_finally(j)

Next ==
    \/ \E j \in SpecJobs :
          Facade(j, SpecInputs) \/ Consumer(j) \/ Worker(j, SpecEnv)
    \/ \E c \in SpecClients : interrupt_extraction(c)

Spec == Init /\ [][Next]_vars

\* Two submissions that carry the same client_id (line 53: the id is the
\* caller's; line 119 registers it without a test).  The first has no
\* keywords, the second a malformed keyword list; the site has one page and
\* every collaborator answers.
SharedInputs(j) ==
    [client_id |-> {"a"},
     ws_manager |-> {TRUE},
     search_keywords |-> IF j = 1 THEN {"none"} ELSE {"nonstr"},
     scrape_mode |-> {"limited"},
     pages_limit |-> {1}]

SharedEnv ==
    [include_meta |-> {TRUE},
     robots |-> {"success"},
     sitemap |-> {r \in SitemapOutcomes : r.n = 1},
     prefilter |-> {"match"},
     scrape_ok |-> {TRUE},
     persist_ok |-> {TRUE}]

\* The worker steps such a submission can take: without keywords the
\* prefilter of lines 437-520 is skipped, and nobody requests an interrupt.
SharedWorker(j, env) ==
    \/ run_start(j, env)
    \/ run_robots(j, env)
    \/ run_sitemap(j, env)
    \/ run_scrape(j, env)
    \/ run_scrape_check(j)
    \/ run_complete(j, env)
    \/ run_complete_check(j)
    \/ run_complete_put(j)
    \/ run_except(j)
    \/ err_check(j)
    \/ err_status(j)
    \/ err_updated(j)
    \/ err_persist(j, env)
    \/ run_finally(j)

SharedNext ==
    \E j \in Jobs :
        Facade(j, SharedInputs(j)) \/ Consumer(j) \/ SharedWorker(j, SharedEnv)

SharedSpec == Init /\ [][SharedNext]_vars

\* One submission whose pages_limit ranges below 1, within the sitemap, and
\* on both sides of the cap of limited mode, in every mode; the sitemap
\* returns up to MaxPages pages or fails.
LimitInputs ==
    [client_id |-> SpecClients,
     ws_manager |-> {TRUE},
     search_keywords |-> {"none", "nonstr"},
     scrape_mode |-> {"all", "limited", "other"},
     pages_limit |-> {-1, 0, 1, 2, 99, 101, 150}]

LimitEnv == [SharedEnv EXCEPT !.sitemap = SitemapOutcomes]

LimitNext ==
    \E j \in SpecJobs :
        Facade(j, LimitInputs) \/ Consumer(j) \/ SharedWorker(j, LimitEnv)

LimitSpec == Init /\ [][LimitNext]_vars

\* One submission with a subscriber, with or without a well-formed keyword
\* list, on a site of one page where every collaborator answers, while the
\* control plane asks for the status and requests interrupts at any moment.
QueryInputs ==
    [client_id |-> SpecClients,
     ws_manager |-> {TRUE},
     search_keywords |-> {"strs", "nonstr"},
     scrape_mode |-> {"limited"},
     pages_limit |-> {1}]

QueryNext ==
    \/ \E j \in SpecJobs :
          Facade(j, QueryInputs) \/ Consumer(j) \/ Worker(j, SharedEnv)
    \/ \E c \in SpecClients :
          \/ interrupt_extraction(c)
          \/ get_extraction_status_test(c)
          \/ get_extraction_status_read(c)

QuerySpec == Init /\ [][QueryNext]_vars

\* Two submissions with distinct client ids, each with a subscriber, on a
\* site of one page where every collaborator answers; the second may carry
\* a malformed keyword list.  Interrupts are requested for the first only.
IsolatedInputs(j) ==
    [client_id |-> IF j = 1 THEN {"a"} ELSE {"b"},
     ws_manager |-> {TRUE},
     search_keywords |-> IF j = 1 THEN {"none"} ELSE {"none", "nonstr"},
     scrape_mode |-> {"limited"},
     pages_limit |-> {1}]

\* The worker steps such submissions can take: without a well-formed keyword
\* list the prefilter of lines 437-520 is skipped.
IsolatedWorker(j, env) ==
    \/ SharedWorker(j, env)
    \/ hi_check(j)
    \/ hi_status(j)
    \/ hi_updated(j)
    \/ hi_persist(j, env)
    \/ hi_warn(j)
    \/ hi_put(j)

IsolatedNext ==
    \/ \E j \in Jobs :
          \/ Facade(j, IsolatedInputs(j))
          \/ Consumer(j)
          \/ IsolatedWorker(j, SharedEnv)
    \/ interrupt_extraction("a")

IsolatedSpec == Init /\ [][IsolatedNext]_vars

\* A call of process_network_data on any list of at most MaxLogs logs.
NetNext ==
    \/ \E logs \in LogLists : process_network_data_call(logs)
    \/ process_network_data_log
    \/ process_network_data_return

NetSpec == Init /\ [][NetNext]_vars

\* One submission with a subscriber whose connection may fail at any send,
\* interrupts included.
SendFailNext ==
    \/ \E j \in SpecJobs :
          \/ Facade(j, QueryInputs)
          \/ Consumer(j)
          \/ consume_forward_failed(j)
          \/ Worker(j, SharedEnv)
    \/ \E c \in SpecClients : interrupt_extraction(c)

SendFailSpec == Init /\ [][SendFailNext]_vars

\* The event loop runs every ready task and the pool runs every submitted
\* worker: a consumer or worker step that stays enabled is taken.
FairSpec ==
    Spec /\ \A j \in SpecJobs : WF_vars(Consumer(j)) /\ WF_vars(Worker(j, SpecEnv))

\* ---------------------------------------------------------------- properties
Client(j) == job[j].client_id
Entry(j) == active_extractions[Client(j)]
\* The messages of job j among those the subscriber of its client id received.
DeliveredOf(j) == {m \in delivered[Client(j)].got : m.job = j}
IsDelivered(j, m) == m \in DeliveredOf(j)

\* C1: for a job with a subscriber, once the worker has returned and the
\* consumer has stopped, exactly one completion message was delivered.
C1_ExactlyOneCompletion ==
    \A j \in Jobs :
        (job[j].ws /\ worker[j].pc = "done" /\ consumer[j].pc = "stopped")
            => Cardinality({m \in DeliveredOf(j) : m.kind = "completion"}) = 1

\* C2: no emitted message is dropped: when the consumer has stopped, every
\* message the worker emitted has been forwarded to the subscriber.
C2_NoMessageDropped ==
    \A j \in Jobs :
        consumer[j].pc = "stopped"
            => \A x \in 1..Len(emitted[j]) : IsDelivered(j, emitted[j][x])

\* C3: after the worker of a job has returned, the consumer eventually stops
\* and the registry entry and the queue mapping are eventually removed.
C3_EventuallyReclaimed ==
    \A j \in SpecJobs :
        (worker[j].pc = "done")
            ~> (/\ consumer[j].pc = "stopped"
                /\ Entry(j).status = "absent"
                /\ message_queues[Client(j)] = {})

\* C4: the job state leaves only RUNNING, and a terminal state, in the job
\* status and in the registry entry, is never changed to another state by
\* any step (the entry may only be removed).
C4_TerminalIsFinal ==
    [][\A j \in Jobs :
         /\ processing_status[j].extraction_status \in TerminalStatuses
               => processing_status'[j].extraction_status
                    = processing_status[j].extraction_status
         /\ processing_status'[j].extraction_status
               # processing_status[j].extraction_status
               => /\ processing_status[j].extraction_status
                        \in {"none", STATUS_RUNNING}
                  /\ processing_status'[j].extraction_status
                        \in TerminalStatuses \cup {STATUS_RUNNING}
         /\ Entry(j).status \in TerminalStatuses
               => Entry(j)'.status \in {Entry(j).status, "absent"}
      ]_vars

\* C5: the messages delivered for a job are in the order the worker emitted
\* them: each is an emitted message, and none was delivered after a message
\* the same worker emitted later.
C5_DeliveredInEmissionOrder ==
    \A j \in Jobs :
        /\ \A m \in DeliveredOf(j) :
             /\ m.n \in 1..Len(emitted[j])
             /\ emitted[j][m.n] = m
        /\ \A m \in delivered[Client(j)].late : m.job # j

\* C6: a completion message is the last message the worker emits for its job.
C6_CompletionIsLast ==
    \A j \in Jobs :
        \A x \in 1..Len(emitted[j]) :
            emitted[j][x].kind = "completion" => x = Len(emitted[j])

\* C6 witness: the worker has returned after emitting a completion message.
C6_Witness ==
    \E j \in Jobs :
        /\ worker[j].pc = "done"
        /\ HasKind(emitted[j], "completion")
        /\ processing_status[j].extraction_status = STATUS_INTERRUPTED

\* C7: end_time is set exactly when the state is terminal, in the job status
\* and in the persisted record, and it is assigned at most once.
C7_EndTimeIffTerminal ==
    \A j \in Jobs :
        /\ processing_status[j].end_time
              <=> processing_status[j].extraction_status \in TerminalStatuses
        /\ db[j].end_time <=> db[j].extraction_status \in TerminalStatuses
        /\ end_writes[j] <= 1

\* C8: interrupt_extraction returns false and changes nothing when the id
\* is unknown or its entry is already terminal; on a running job it returns
\* true, sets the flag, and a repeated call leaves the entry as the first did.
C8_InterruptContract ==
    [][\A c \in ClientIds :
         interrupt_extraction(c) =>
           /\ active_extractions[c].status \in TerminalStatuses \cup {"absent"}
                => (intr_ret'[c] = "false" /\ UNCHANGED active_extractions)
           /\ active_extractions[c].status = STATUS_RUNNING
                => /\ intr_ret'[c] = "true"
                   /\ active_extractions'[c].interrupt_requested
                   /\ active_extractions[c].interrupt_requested
                        => UNCHANGED active_extractions
      ]_vars

\* C9: a job (with a well-formed keyword list) for which an interrupt was
\* requested before any page was fetched ends INTERRUPTED with pages_scraped
\* 0, no page fetched and a completion message in its stream.
C9_EarlyInterruptFetchesNothing ==
    \A j \in Jobs :
        (early_intr[j] /\ worker[j].pc = "done" /\ job[j].keywords # "nonstr")
            => /\ processing_status[j].extraction_status = STATUS_INTERRUPTED
               /\ processing_status[j].pages_scraped = 0
               /\ fetched[j] = <<>>
               /\ HasKind(emitted[j], "completion")

\* C10: a submission without a subscriber channel creates no queue and
\* queues no message, and once it has returned its worker runs until the
\* persisted record is terminal.
C10_NoSubscriberStillRuns ==
    \A j \in SpecJobs :
        /\ [](~job[j].ws =>
                /\ message_queues[Client(j)] = {}
                /\ emitted[j] = <<>>
                /\ DeliveredOf(j) = {})
        /\ (job[j].pc = "returned" /\ ~job[j].ws)
              ~> (db[j].extraction_status \in TerminalStatuses)

\* C11: a submission under a client id that already has a registry entry
\* fails, and leaves the entry (with its interrupt flag), the queue mapping
\* and the consumers as they were.
C11_DuplicateRejected ==
    [][\A j \in Jobs :
         (/\ job[j].pc = "new"
          /\ job'[j].pc # "new"
          /\ active_extractions[job'[j].client_id].status # "absent")
         => /\ job'[j].pc = "http_500"
            /\ UNCHANGED <<active_extractions, message_queues, consumer>>
      ]_vars

\* C12: the limit stored for a job is 5 for an input below 1, else the
\* input in mode all, else min(input, 100); the worker takes its pages from
\* the discovered ones up to that limit.
C12_EffectiveLimit ==
    [][\A j \in Jobs :
         /\ \A c \in ClientIds, ws \in BOOLEAN, kw \in LimitInputs.search_keywords,
               m \in LimitInputs.scrape_mode, pl \in LimitInputs.pages_limit :
               add_project_register(j, c, ws, kw, m, pl) =>
                 LET eff == IF pl < 1 THEN 5
                            ELSE IF m = "all" THEN pl ELSE Min(pl, 100)
                 IN  /\ job'[j].pages_limit = eff
                     /\ processing_status'[j].pages_limit = eff
                     /\ db'[j].pages_limit = eff
         /\ processing_status'[j].extraction_status # "none"
               => processing_status'[j].pages_limit = job'[j].pages_limit
         /\ (job'[j].keywords = "none" /\ worker'[j].pages_to_process # <<>>)
               => worker'[j].pages_to_process
                    = Slice(worker'[j].sitemap_pages, job'[j].pages_limit)
      ]_vars

\* C12 witness: a finished job whose stored limit is the cap of limited mode
\* (no input equals the cap) and whose worker took every discovered page.
C12_Witness ==
    \E j \in Jobs :
        /\ worker[j].pc = "done"
        /\ job[j].pages_limit = LimitedModeCap
        /\ processing_status[j].pages_limit = LimitedModeCap
        /\ Len(worker[j].pages_to_process) = MaxPages

\* C13: a submission with an empty url is answered with the invalid-input
\* error (status 400), not the internal error, and changes nothing else.
C13_EmptyUrlIsInvalidInput ==
    [][\A j \in Jobs :
         add_project_rejected(j)
           => /\ job'[j].pc = "http_400"
              /\ UNCHANGED <<active_extractions, extraction_stats, message_queues,
                             queues, consumer, worker, processing_status, db,
                             emitted, delivered>>
      ]_vars

\* C14: once page discovery has completed, pages_scraped is at most
\* pages_found, in the job status and in the persisted record.
C14_ScrapedAtMostFound ==
    \A j \in Jobs :
        processing_status[j].sitemap_status # "not_processed"
            => /\ processing_status[j].pages_scraped
                    <= processing_status[j].pages_found
               /\ db[j].pages_scraped <= processing_status[j].pages_found

\* C15: with keywords and no matching page, when the fetch loop is about to
\* start the worker holds a fallback set of min(pages_limit, pages_found)
\* pages, and no_matches is recorded in the job status and persisted.
C15_NoMatchFallback ==
    \A j \in Jobs :
        (/\ job[j].keywords = "strs"
         /\ worker[j].pc = "scrape"
         /\ fetched[j] = <<>>
         /\ worker[j].keyword_matches = {})
        => /\ Len(worker[j].pages_to_process)
                = Min(job[j].pages_limit, processing_status[j].pages_found)
           /\ processing_status[j].keyword_search_results = "no_matches"
           /\ db[j].keyword_search_results = "no_matches"

\* C16: when a job has ended INTERRUPTED or ERROR and the store took the
\* final status, the persisted record holds the pages scraped so far and
\* their count.
C16_PartialResultsPersisted ==
    \A j \in Jobs :
        (/\ worker[j].pc = "done"
         /\ processing_status[j].extraction_status
               \in {STATUS_INTERRUPTED, STATUS_ERROR}
         /\ db[j].extraction_status = processing_status[j].extraction_status)
        => /\ db[j].scraped_pages = worker[j].scraped_pages
           /\ db[j].pages_scraped = Len(worker[j].scraped_pages)

\* C17: when the interrupt flag of a job is set, no step of its worker
\* performs a prefilter check or a page fetch.
C17_FlagReadBeforeEachUnit ==
    [][\A j \in Jobs :
         should_interrupt(Client(j))
           => /\ worker'[j].pages_checked = worker[j].pages_checked
              /\ fetched'[j] = fetched[j]
      ]_vars

\* C18: a worker that has seen the flag at a checkpoint performs no prefilter
\* check, page fetch or COMPLETED transition, and when its interruption
\* handler returns the registry entry and the job status are INTERRUPTED,
\* end_time is stamped, and its last two messages are a warning and then
\* the completion.
C18_InterruptionProtocol ==
    [][\A j \in Jobs :
         /\ worker[j].pc \in HandlerPcs \cup {AfterInterruption}
               => /\ worker'[j].pages_checked = worker[j].pages_checked
                  /\ fetched'[j] = fetched[j]
                  /\ processing_status'[j].extraction_status = STATUS_COMPLETED
                       => processing_status[j].extraction_status = STATUS_COMPLETED
         /\ (worker[j].pc \in HandlerPcs /\ worker'[j].pc \notin HandlerPcs)
               => /\ worker'[j].pc = AfterInterruption
                  /\ processing_status'[j].extraction_status = STATUS_INTERRUPTED
                  /\ processing_status'[j].end_time
                  /\ Entry(j)'.status \in {STATUS_INTERRUPTED, "absent"}
                  /\ Len(emitted'[j]) >= 2
                  /\ emitted'[j][Len(emitted'[j]) - 1].kind = "warning"
                  /\ emitted'[j][Len(emitted'[j])].kind = "completion"
      ]_vars

\* C19: the consumer removes the queue mapping, removes the registry entry
\* and stops only in a state where its queue is empty and the entry is
\* absent or terminal.
C19_ConsumerTerminationRule ==
    [][\A j \in Jobs :
         (consume_del_queue(j) \/ consume_del_entry(j))
           => /\ queues[consumer[j].q] = <<>>
              /\ Entry(j).status \in TerminalStatuses \cup {"absent"}
      ]_vars

\* C20: when the worker of a job has returned and the job's registry entry
\* still exists, the entry's status is the job's final, terminal state.
C20_RegistryMirrorsState ==
    \A j \in Jobs :
        (/\ worker[j].pc = "done"
         /\ Entry(j).status # "absent"
         /\ Entry(j).project_id = j)
        => /\ processing_status[j].extraction_status \in TerminalStatuses
           /\ Entry(j).status = processing_status[j].extraction_status

\* C21: a candidate whose prefilter check failed does not abort the job and
\* is among the pages handed to the fetch loop.
C21_FailedCheckIncludesPage ==
    \A j \in Jobs :
        /\ worker[j].failed_checks # {}
              => processing_status[j].extraction_status # STATUS_ERROR
        /\ worker[j].pages_to_process # <<>>
              => \A p \in worker[j].failed_checks :
                    \E x \in 1..Len(worker[j].pages_to_process) :
                        worker[j].pages_to_process[x] = p

\* C22: a page that fails in the fetch loop adds one error, leaves the job
\* RUNNING and the loop going; without an interrupt the loop moves on to the
\* next page, and the job turns COMPLETED only after every page of the set
\* was attempted, with pages_scraped the number of pages that succeeded.
C22_PageFailureIsNotFatal ==
    [][\A j \in Jobs :
         /\ (/\ fetched'[j] # fetched[j]
              /\ worker'[j].scraped_pages = worker[j].scraped_pages)
               => /\ processing_status'[j].errors
                       = Append(processing_status[j].errors, "scrape")
                  /\ processing_status'[j].extraction_status = STATUS_RUNNING
                  /\ worker'[j].pc = "scrape_check"
         /\ (/\ worker[j].pc = "scrape_check"
              /\ worker'[j].pc # "scrape_check"
              /\ ~should_interrupt(Client(j)))
               => worker'[j].pc =
                     IF Len(fetched[j]) < Len(worker[j].pages_to_process)
                     THEN "scrape" ELSE "complete"
         /\ (/\ processing_status'[j].extraction_status = STATUS_COMPLETED
              /\ processing_status[j].extraction_status # STATUS_COMPLETED)
               => /\ fetched[j] = worker[j].pages_to_process
                  /\ processing_status'[j].pages_scraped
                       = Len(worker[j].scraped_pages)
      ]_vars

\* C22 witness: a completed job whose first page failed and whose second
\* page was scraped.
C22_Witness ==
    \E j \in Jobs :
        /\ worker[j].pc = "done"
        /\ processing_status[j].extraction_status = STATUS_COMPLETED
        /\ fetched[j] = <<1, 2>>
        /\ worker[j].scraped_pages = <<2>>
        /\ processing_status[j].pages_scraped = 1
        /\ processing_status[j].errors = <<"scrape">>

\* C23: the robots and the sitemap stage record their outcome, append their
\* failure to the error list and hand over to the next stage with the job
\* RUNNING; after a sitemap that failed or found nothing the candidates are
\* the target url alone.
C23_DiscoveryIsNotFatal ==
    [][\A j \in Jobs :
         LET ps == processing_status[j]
             ps2 == processing_status'[j]
         IN
         /\ (worker[j].pc = "robots" /\ worker'[j].pc # "robots")
               => /\ worker'[j].pc = "sitemap"
                  /\ ps2.robots_status \in {"success", "failed", "error"}
                  /\ ps2.errors = IF ps2.robots_status = "success" THEN ps.errors
                                  ELSE Append(ps.errors, "robots")
                  /\ ps2.extraction_status = STATUS_RUNNING
         /\ (worker[j].pc = "sitemap" /\ worker'[j].pc # "sitemap")
               => /\ worker'[j].pc \in {"filter", "scrape"}
                  /\ ps2.sitemap_status \in {"success", "no_pages", "error"}
                  /\ ps2.errors = IF ps2.sitemap_status = "success" THEN ps.errors
                                  ELSE Append(ps.errors, "sitemap")
                  /\ ps2.sitemap_status # "success"
                       => worker'[j].sitemap_pages = <<UrlPage>>
                  /\ ps2.extraction_status = STATUS_RUNNING
      ]_vars

\* C23 witness: a job whose robots and sitemap stages both raised and which
\* completed after scraping the target url.
C23_Witness ==
    \E j \in Jobs :
        /\ worker[j].pc = "done"
        /\ processing_status[j].robots_status = "error"
        /\ processing_status[j].sitemap_status = "error"
        /\ processing_status[j].errors = <<"robots", "sitemap">>
        /\ fetched[j] = <<UrlPage>>
        /\ processing_status[j].extraction_status = STATUS_COMPLETED

\* C24: when the worker leaves its except handler, the job status is ERROR
\* with end_time stamped and the failure appended, the registry entry (if
\* any) is ERROR, an error message was emitted, and nothing was raised out
\* of the worker.
C24_FatalErrorPath ==
    [][\A j \in Jobs :
         (worker[j].pc \in ErrorPcs /\ worker'[j].pc \notin ErrorPcs)
           => LET ps == processing_status'[j] IN
              /\ ps.extraction_status = STATUS_ERROR
              /\ ps.end_time
              /\ ps.errors # <<>>
              /\ ps.errors[Len(ps.errors)] = "fatal"
              /\ Entry(j)'.status \in {STATUS_ERROR, "absent"}
              /\ HasKind(emitted'[j], "error")
              /\ ~worker'[j].raised
      ]_vars

\* The first n elements of t, and "s is t with some elements left out".
FirstN(t, n) == [x \in 1..(IF n < Len(t) THEN n ELSE Len(t)) |-> t[x]]
IsSubsequence(s, t) ==
    \E f \in [1..Len(s) -> 1..Len(t)] :
        /\ \A x \in 1..Len(s) : t[f[x]] = s[x]
        /\ \A x, y \in 1..Len(s) : x < y => f[x] < f[y]

\* C25: the pages the fetch loop attempts are a subsequence of the first
\* pages_limit discovered pages, so at most pages_limit pages are fetched or
\* counted; without keywords they are a prefix of those pages, and all of
\* them once the job is COMPLETED.
C25_AttemptedWithinLimit ==
    \A j \in Jobs :
        LET first == FirstN(worker[j].sitemap_pages, job[j].pages_limit) IN
        /\ IsSubsequence(fetched[j], first)
        /\ Len(fetched[j]) <= job[j].pages_limit
        /\ processing_status[j].pages_scraped <= job[j].pages_limit
        /\ job[j].keywords = "none"
              => /\ fetched[j] = FirstN(first, Len(fetched[j]))
                 /\ processing_status[j].extraction_status = STATUS_COMPLETED
                      => fetched[j] = first

\* C25 witness: a completed job whose limit of one page cut a sitemap of two.
C25_Witness ==
    \E j \in Jobs :
        /\ processing_status[j].extraction_status = STATUS_COMPLETED
        /\ job[j].pages_limit = 1
        /\ Len(worker[j].sitemap_pages) = MaxPages
        /\ fetched[j] = <<1>>

\* C26: keyword_matches holds exactly the pages for which the prefilter
\* reported a match: in the worker at every moment, never more in the job
\* status and the persisted record, and all of them in the job status once
\* the job is COMPLETED.
C26_KeywordMatchesExact ==
    \A j \in Jobs :
        /\ worker[j].keyword_matches = worker[j].reported
        /\ processing_status[j].keyword_matches \subseteq worker[j].reported
        /\ db[j].keyword_matches \subseteq worker[j].reported
        /\ processing_status[j].extraction_status = STATUS_COMPLETED
              => processing_status[j].keyword_matches = worker[j].reported

\* C26 witness: a completed job with two candidates of which only the
\* second matched and was fetched.
C26_Witness ==
    \E j \in Jobs :
        /\ processing_status[j].extraction_status = STATUS_COMPLETED
        /\ worker[j].pages_checked = 2
        /\ processing_status[j].keyword_matches = {2}
        /\ fetched[j] = <<2>>

\* C27: interrupt_extraction changes no field of an entry but
\* interrupt_requested, and no worker step changes interrupt_requested.
C27_RegistryFieldOwnership ==
    [][\A c \in ClientIds :
         /\ interrupt_extraction(c)
               => /\ active_extractions'[c].status = active_extractions[c].status
                  /\ active_extractions'[c].last_updated
                       = active_extractions[c].last_updated
                  /\ active_extractions'[c].project_id
                       = active_extractions[c].project_id
         /\ (\E j \in Jobs : worker'[j] # worker[j])
               => active_extractions'[c].interrupt_requested
                    = active_extractions[c].interrupt_requested
      ]_vars

\* C28: the error list of a job only grows by appending, and every error
\* the worker catches is appended to it: a failed robots or sitemap stage, a
\* failed fetch of a page, and a failed prefilter check of a page each add
\* one entry in the step that catches the failure.
C28_EveryCaughtErrorRecorded ==
    [][\A j \in Jobs :
         LET ps  == processing_status[j]
             ps2 == processing_status'[j]
         IN  /\ \/ ps2.errors = ps.errors
                \/ \E e \in {"robots", "sitemap", "prefilter", "scrape", "fatal"} :
                      ps2.errors = Append(ps.errors, e)
             /\ (worker[j].pc = "robots" /\ worker'[j].pc # "robots"
                   /\ ps2.robots_status # "success")
                  => ps2.errors = Append(ps.errors, "robots")
             /\ (worker[j].pc = "scrape" /\ worker'[j].pc # "scrape"
                   /\ worker'[j].scraped_pages = worker[j].scraped_pages)
                  => ps2.errors = Append(ps.errors, "scrape")
             /\ worker'[j].failed_checks # worker[j].failed_checks
                  => ps2.errors = Append(ps.errors, "prefilter")
      ]_vars

\* C29: at every interleaving with the worker and the consumer a status
\* query ends with not-found or with a copy of the entry (with the
\* statistics when they exist), and an interrupt request with a boolean:
\* neither ends with an exception.
C29_QueriesNeverRaise ==
    \A c \in ClientIds :
        /\ status_query[c] \in {"idle", "at_745", "None", "entry", "entry_stats"}
        /\ intr_ret[c] \in {"none", "false", "true"}

\* C30: a step of the worker that calls update_project_partial_sync has the
\* same in-memory outcome whether or not the store took the update: the
\* worker goes on to the statement after the call, the job's status dict
\* is the one the worker built before the call, the same messages are
\* emitted, and only the persisted record can differ.
C30_PersistFailureSwallowed ==
    [][\A j \in Jobs :
         LET w == worker[j]
             ps == processing_status[j]
         IN
         /\ run_filter_done(j, SpecEnv)
               => /\ worker'[j].pc = "scrape"
                  /\ Len(emitted'[j]) = Len(emitted[j]) + 3
         /\ run_complete(j, SpecEnv)
               => /\ worker'[j].pc = "complete_check"
                  /\ processing_status'[j]
                       = CompletedStatus(ps, Len(w.scraped_pages))
                  /\ Len(emitted'[j]) = Len(emitted[j]) + 1
         /\ hi_persist(j, SpecEnv)
               => /\ worker'[j].pc = "hi_warn"
                  /\ processing_status'[j].extraction_status = STATUS_INTERRUPTED
                  /\ emitted'[j] = emitted[j]
         /\ err_persist(j, SpecEnv)
               => /\ worker'[j].pc = "finally"
                  /\ processing_status'[j].extraction_status = STATUS_ERROR
                  /\ emitted'[j] = emitted[j]
         /\ (run_filter_done(j, SpecEnv) \/ run_complete(j, SpecEnv)
               \/ hi_persist(j, SpecEnv) \/ err_persist(j, SpecEnv))
               => /\ worker'[j].raised = w.raised
                  /\ active_extractions' = active_extractions
                  /\ extraction_stats' = extraction_stats
      ]_vars

\* The worker has returned from a completed run of which the store took no
\* update: the job is COMPLETED in memory with its completion message
\* emitted, while the record still says running.
C30_Witness ==
    \E j \in Jobs :
        /\ worker[j].pc = "done"
        /\ ~worker[j].raised
        /\ processing_status[j].extraction_status = STATUS_COMPLETED
        /\ db[j].exists
        /\ db[j].extraction_status = STATUS_RUNNING
        /\ HasKind(emitted[j], "completion")

\* C31: a submission that failed (the handler answered 500) leaves nothing
\* behind: the registry entry, the statistics and the queue of its client id
\* are removed, and its consumer task, if one was started, stops.
C31_FailedSubmissionLeavesNothing ==
    \A j \in SpecJobs :
        (job[j].pc = "http_500")
            ~> (/\ active_extractions[Client(j)].status = "absent"
                /\ Client(j) \notin extraction_stats
                /\ message_queues[Client(j)] = {}
                /\ consumer[j].pc \in {"none", "stopped"})

\* C32: a failed forward does not stop the consumer; the message it took is
\* gone from the queue and is never forwarded, no message is forwarded
\* twice, the messages that follow are forwarded in emission order, and the
\* consumer stops only through its termination test: after it found the
\* entry absent or terminal and then the queue empty.
C32_SendFailureKeepsConsuming ==
    [][\A j \in SpecJobs :
         LET q == consumer[j].q
             m == QueueFront(queues[q])
             pc == consumer[j].pc
             pc2 == consumer'[j].pc
         IN
         /\ consume_forward_failed(j)
               => /\ pc2 = "poll"
                  /\ queues'[q] = QueueRest(queues[q])
                  /\ delivered' = delivered
                  /\ message_queues' = message_queues
                  /\ active_extractions' = active_extractions
         /\ consume_forward(j)
               => /\ m \notin delivered[Client(j)].got
                  /\ m \notin consumer[j].failed
                  /\ \A f \in consumer[j].failed \cup DeliveredOf(j) : f.n < m.n
         /\ delivered'[Client(j)].late = {}
         /\ (pc2 = "stopped" /\ pc # "stopped") => pc \in {"start", "del_entry"}
         /\ (pc2 = "del_entry" /\ pc # "del_entry") => pc = "del_queue"
         /\ (pc2 = "del_queue" /\ pc # "del_queue")
               => pc = "empty" /\ queues[q] = <<>>
         /\ (pc2 = "empty" /\ pc # "empty")
               => pc = "check" /\ ExtractionDone(Client(j))
      ]_vars

\* The consumer has stopped after a forward failed and a later message of
\* the job reached the subscriber.
C32_Witness ==
    \E j \in SpecJobs :
        /\ consumer[j].pc = "stopped"
        /\ \E f \in consumer[j].failed :
              \E d \in DeliveredOf(j) : d.n > f.n

\* C33: with interrupts requested for client id "a" only, the request sets
\* the flag of "a" and leaves the entry, the queue, the delivered messages,
\* the status dict and the worker of the job of "b" as they were; the job
\* of "b" never sees a flag, never enters the interruption handler and
\* never becomes INTERRUPTED, and the subscriber of each id receives the
\* messages of its own job only.
C33_JobsAreIsolated ==
    [][/\ interrupt_extraction("a")
          => /\ active_extractions'["b"] = active_extractions["b"]
             /\ queues'[2] = queues[2]
             /\ delivered'["b"] = delivered["b"]
             /\ processing_status'[2] = processing_status[2]
             /\ worker'[2] = worker[2]
             /\ consumer'[2] = consumer[2]
             /\ active_extractions["a"].status # "absent"
                   => active_extractions'["a"].interrupt_requested
       /\ ~active_extractions'["b"].interrupt_requested
       /\ worker'[2].pc \notin HandlerPcs
       /\ processing_status'[2].extraction_status # STATUS_INTERRUPTED
       /\ active_extractions'["b"].status # STATUS_INTERRUPTED
       /\ \A m \in delivered'["b"].got : m.job = 2
       /\ \A m \in delivered'["a"].got : m.job = 1
       /\ \A x \in 1..Len(queues'[2]) : queues'[2][x].job = 2
      ]_vars

\* The job of "a" ended INTERRUPTED while the job of "b" ran to COMPLETED
\* and its completion message reached the subscriber of "b".
C33_Witness ==
    /\ job[2].client_id = "b"
    /\ worker[1].pc = "done"
    /\ processing_status[1].extraction_status = STATUS_INTERRUPTED
    /\ worker[2].pc = "done"
    /\ processing_status[2].extraction_status = STATUS_COMPLETED
    /\ \E m \in delivered["b"].got : m.job = 2 /\ m.kind = "completion"

\* C34: process_network_data never stops at a malformed log; when it
\* returns, its entries are, in order, the responseReceived logs that follow
\* a requestWillBeSent log of the same requestId, one entry each; and the
\* connect, wait and receive times of every entry are non-negative.
C34_EntriesMatchResponses ==
    LET logs == net.logs
        Answered == {k \in 1..Len(logs) :
                       /\ logs[k].shape = "response"
                       /\ \E m \in 1..(k - 1) :
                             logs[m].shape = "request" /\ logs[m].id = logs[k].id}
        entries == net.entries
    IN
    /\ net.status # "raised"
    /\ net.status = "returned"
          => /\ Len(entries) = Cardinality(Answered)
             /\ \A x \in 1..Len(entries) : entries[x].response \in Answered
             /\ \A x \in 1..Len(entries), y \in 1..Len(entries) :
                   x < y => entries[x].response < entries[y].response
    /\ \A x \in 1..Len(entries) :
          entries[x].connect >= 0 /\ entries[x].wait >= 0 /\ entries[x].receive >= 0

====
